---- MODULE Spec2Model ----
(***************************************************************************)
(* Model of src/server.js: the FastPay transfer API.  Three process-wide   *)
(* objects (ACCOUNTS, PROCESSED_KEYS, TRANSACTIONS) and one synchronous    *)
(* Express handler, POST /api/v1/transfers.                                *)
(*                                                                         *)
(* Node runs a synchronous handler to completion before it dispatches the  *)
(* next request, so one handler run is one atomic step.  Requests that are *)
(* in flight together are dispatched in an arbitrary order (SpecConc).     *)
(*                                                                         *)
(* Balances and amounts are JavaScript numbers (IEEE-754 doubles).  A      *)
(* finite number is written  w + f * 2^-41  as the record [w, f] with      *)
(* |f| small; -= and += compute the exact result and round it to the       *)
(* nearest double, ties to even, as the engine does.                       *)
(***************************************************************************)
EXTENDS Integers, Sequences, FiniteSets, TLC

VARIABLES
    ACCOUNTS,        \* src/server.js:11  {id_conta: saldo}
    PROCESSED_KEYS,  \* src/server.js:18  own properties: key -> response body
    TRANSACTIONS,    \* src/server.js:20  own properties: transaction_id -> record
    clock,           \* the wall clock read by new Date() (line 79)
    req,             \* the request the handler ran last
    res,             \* the response it sent: [status, body]
    commits,         \* history: per key, how often lines 76-77 ran for it
    received,        \* SpecConc: slot -> request received by the server
    responses,       \* SpecConc: slot -> response sent (slot dispatched)
    overlapped,      \* SpecConc: history, pairs of slots pending at the same time
    lookup           \* SpecBalance: the last GET /api/v1/balance/:accountId exchange

vars == <<ACCOUNTS, PROCESSED_KEYS, TRANSACTIONS, clock, req, res, commits,
          received, responses, overlapped, lookup>>

----------------------------------------------------------------------------
(* Bounds *)

\* The clock takes the values 0..MaxClock.
MaxClock == 1

\* Number of request slots (connections) in SpecConc.
NSlots == 2

----------------------------------------------------------------------------
(* JavaScript numbers *)

Fin(w, f) == [k |-> "fin", w |-> w, f |-> f]

\* What JSON.parse gives for a literal beyond the double range, e.g. 1e999.
PosInfinity == [k |-> "inf", w |-> 0, f |-> 0]

\* A JSON value that is not a number (typeof amount !== 'number').
NotNumber == [k |-> "str", w |-> 0, f |-> 0]

\* A field that is absent from a body.
Undefined == [k |-> "undef", w |-> 0, f |-> 0]

RECURSIVE Pow2(_)
Pow2(n) == IF n <= 0 THEN 1 ELSE 2 * Pow2(n - 1)

RECURSIVE FloorLog2(_)
FloorLog2(w) == IF w <= 1 THEN 0 ELSE 1 + FloorLog2(w \div 2)

\* a < b on numbers
Less(a, b) ==
    CASE a.k = "fin" /\ b.k = "fin" -> a.w < b.w \/ (a.w = b.w /\ a.f < b.f)
      [] a.k = "fin" /\ b.k = "inf" -> TRUE
      [] OTHER -> FALSE

Zero == Fin(0, 0)

\* a <= 0
LeqZero(a) == a = Zero \/ Less(a, Zero)

Neg(a) == [a EXCEPT !.w = -a.w, !.f = -a.f]

\* n / step rounded to the nearest integer, ties to the even one
RoundHalfEven(n, step) ==
    LET lo == n \div step
        r  == n % step
    IN  IF 2 * r < step THEN lo
        ELSE IF 2 * r > step THEN lo + 1
        ELSE IF lo % 2 = 0 THEN lo ELSE lo + 1

\* The binary exponent e of a value v >= 1:  2^e <= v < 2^(e+1).
Binade(v) ==
    LET e == FloorLog2(v.w)
    IN  IF v.f < 0 /\ v.w = Pow2(e) THEN e - 1 ELSE e

\* Round a non-negative exact value to the nearest double.  A double in the
\* binade e is a multiple of 2^(e-52), that is of 2^(e-11) units of 2^-41;
\* below 2^11 every multiple of 2^-41 is a double.
RoundNonNeg(v) ==
    IF v.w < 1 THEN v
    ELSE LET e == Binade(v)
         IN  IF e < 11 THEN v
             ELSE LET step == Pow2(e - 11)
                  IN  [v EXCEPT !.f = step * RoundHalfEven(v.f, step)]

RoundDouble(v) ==
    IF Less(v, Zero) THEN Neg(RoundNonNeg(Neg(v))) ELSE RoundNonNeg(v)

\* The JavaScript a - b and a + b on finite numbers.
Minus(a, b) == RoundDouble(Fin(a.w - b.w, a.f - b.f))
Plus(a, b)  == RoundDouble(Fin(a.w + b.w, a.f + b.f))

----------------------------------------------------------------------------
(* The stores *)

AccountIds == {"ACC12345", "ACC67890", "ACC99999"}

SeedAccounts ==
    [a \in AccountIds |->
        CASE a = "ACC12345" -> Fin(1500, 0)
          [] a = "ACC67890" -> Fin(500, 0)
          [] a = "ACC99999" -> Fin(10000, 0)]

\* Names every object literal {} inherits from Object.prototype; obj[name]
\* is then a function (or the prototype itself), which is truthy.
ObjectPrototypeKeys == {"constructor"}

\* obj[key] is truthy: an own property holding a body, or an inherited one.
TruthyLookup(obj, key) == key \in DOMAIN obj \/ key \in ObjectPrototypeKeys

\* obj[key] = value
Store(obj, key, value) ==
    [k \in DOMAIN obj \cup {key} |-> IF k = key THEN value ELSE obj[k]]

\* ACCOUNTS.hasOwnProperty(id)
HasOwnAccount(id) == id \in DOMAIN ACCOUNTS

----------------------------------------------------------------------------
(* Requests and responses *)

\* Idempotency-Key header values; "" is the absent (or empty) header.
Keys == {"", "K1", "K2", "constructor"}

\* <<sender_account_id, receiver_account_id>> values; "" is absent or empty,
\* ACC00000 is no account.
Routes ==
    { <<"ACC67890", "ACC99999">>, <<"ACC99999", "ACC67890">>,
      <<"ACC67890", "ACC67890">>, <<"ACC00000", "ACC00000">>,
      <<"ACC67890", "ACC00000">>, <<"", "ACC99999">> }

\* amount values: a string, 0, 2^-41, 500, Infinity.
Amounts == {NotNumber, Zero, Fin(0, 1), Fin(500, 0), PosInfinity}

\* A request whose JSON body express.json() parsed into req.body.
Request(key, route, amount) ==
    [key |-> key, has_body |-> TRUE, sender_account_id |-> route[1],
     receiver_account_id |-> route[2], amount |-> amount]

\* A request without a JSON body: express.json() does not parse anything and
\* the three fields are absent.
BodylessRequest(key) ==
    [key |-> key, has_body |-> FALSE, sender_account_id |-> "",
     receiver_account_id |-> "", amount |-> NotNumber]

Requests ==
    { Request(key, route, amount) : key \in Keys, route \in Routes, amount \in Amounts }
        \cup { BodylessRequest(key) : key \in Keys }

\* uuidv4().split('-')[0]: 32 random bits, drawn afresh for every commit.
TransactionIds == {"TRX-0000000A", "TRX-0000000B"}

Body(status, code, message, tid, balance, ts) ==
    [status |-> status, code |-> code, message |-> message,
     transaction_id |-> tid, new_sender_balance |-> balance, timestamp |-> ts]

ErrorBody(code, message) ==
    Body("ERROR", code, message, "undefined", Undefined, -1)

MissingKeyBody ==
    ErrorBody("undefined", "O cabecalho 'Idempotency-Key' e obrigatorio.")

InvalidRequestBody ==
    ErrorBody("undefined", "Dados de transacao invalidos. Verifique as contas e o valor.")

InvalidAccountBody ==
    ErrorBody("INVALID_ACCOUNT", "Uma ou ambas as contas nao sao validas.")

SelfTransferBody ==
    ErrorBody("SELF_TRANSFER", "Transferencia para a mesma conta nao e permitida.")

InsufficientFundsBody ==
    ErrorBody("INSUFFICIENT_FUNDS", "Saldo insuficiente.")

InternalErrorBody ==
    ErrorBody("undefined", "Erro interno do servidor.")

SuccessBody(tid, balance, ts) ==
    Body("SUCCESS", "undefined", "Transferencia realizada com sucesso.", tid, balance, ts)

\* res.json(f) for an inherited function f: JSON.stringify gives undefined
\* and the response carries no body.
NoBody == Body("undefined", "undefined", "undefined", "undefined", Undefined, -1)

\* Mutant of StoredBody: the duplicate path answers without the stored body.
StoredBodyDropped(key) == NoBody

\* PROCESSED_KEYS[key], as res.json serialises it
StoredBody(key) ==
    IF key \in DOMAIN PROCESSED_KEYS THEN PROCESSED_KEYS[key] ELSE NoBody

Response(status, body) == [status |-> status, body |-> body]

\* Before the first request.
NoRequest == BodylessRequest("")

NoResponse == Response(0, NoBody)

TransactionRecord(tid, sender, receiver, amount, ts) ==
    [transaction_id |-> tid, sender_id |-> sender, receiver_id |-> receiver,
     amount |-> amount, timestamp |-> ts, status |-> "COMPLETED"]

----------------------------------------------------------------------------
(* The checks of the handler, in the order of the source *)

\* line 27: !idempotencyKey
KeyMissing(r) == r.key = ""

\* Mutant of IsDuplicate: the duplicate check is missing.
IsDuplicateNever(r) == FALSE

\* Mutant of IsDuplicate: only a stored Success counts as a duplicate.
IsDuplicateSuccessOnly(r) ==
    r.key \in DOMAIN PROCESSED_KEYS /\ PROCESSED_KEYS[r.key].status = "SUCCESS"

\* line 35: PROCESSED_KEYS[idempotencyKey] is truthy
IsDuplicate(r) == TruthyLookup(PROCESSED_KEYS, r.key)

\* line 42: the destructuring of req.body can throw only when express.json()
\* left req.body undefined, which it does for a request without a body in
\* Express 5 (Express 4 sets req.body = {}).
BodyMissing(r) == ~r.has_body

\* line 45
BasicInvalid(r) ==
    \/ r.sender_account_id = ""
    \/ r.receiver_account_id = ""
    \/ r.amount.k \notin {"fin", "inf"}
    \/ LeqZero(r.amount)

\* line 54
AccountInvalid(r) ==
    \/ ~HasOwnAccount(r.sender_account_id)
    \/ ~HasOwnAccount(r.receiver_account_id)

\* Mutant of IsSelfTransfer: the self-transfer check is missing.
IsSelfTransferNever(r) == FALSE

\* line 58
IsSelfTransfer(r) == r.sender_account_id = r.receiver_account_id

\* Mutant of InsufficientFunds: the balance read is the receiver's.
InsufficientFundsOfReceiver(r) == Less(ACCOUNTS[r.receiver_account_id], r.amount)

\* lines 63-64: currentBalance < amount
InsufficientFunds(r) == Less(ACCOUNTS[r.sender_account_id], r.amount)

\* lines 76-77, in the order of the source
MoveBalances(accounts, sender, receiver, amount) ==
    LET debited == [accounts EXCEPT ![sender] = Minus(accounts[sender], amount)]
    IN  [debited EXCEPT ![receiver] = Plus(debited[receiver], amount)]

\* Mutant of RecordOutcome: the outcome is not stored.
RecordOutcomeSkipped(keys, key, body) == keys

\* Mutant of RecordOutcome: the store keeps the latest key only.
RecordOutcomeLatestOnly(keys, key, body) == [k \in {key} |-> body]

\* line 100 and line 66: PROCESSED_KEYS[idempotencyKey] = body
RecordOutcome(keys, key, body) == Store(keys, key, body)

\* line 90: TRANSACTIONS[transactionId] = transactionRecord
RecordTransaction(transactions, tid, record) == Store(transactions, tid, record)

\* Mutant of Reply: an error returned early is recorded under the key.
ReplyAndRecord(r, status, body) ==
    /\ req' = r
    /\ res' = [status |-> status, body |-> body]
    /\ PROCESSED_KEYS' =
         IF status = 400 /\ r.key # ""
         THEN [k \in DOMAIN PROCESSED_KEYS \cup {r.key} |->
                  IF k = r.key THEN body ELSE PROCESSED_KEYS[k]]
         ELSE PROCESSED_KEYS
    /\ UNCHANGED <<ACCOUNTS, TRANSACTIONS, clock, commits>>

\* An early return: nothing but the response changes.
Reply(r, status, body) ==
    /\ req' = r
    /\ res' = Response(status, body)
    /\ UNCHANGED <<ACCOUNTS, PROCESSED_KEYS, TRANSACTIONS, clock, commits>>

\* Mutant of ReplyInsufficientFunds: the error is returned, not recorded.
ReplyInsufficientFundsUnrecorded(r) == Reply(r, 400, InsufficientFundsBody)

\* Mutant of ReplyInsufficientFunds: the refused transfer is logged as a
\* failed transaction.
ReplyInsufficientFundsLogged(r) ==
    /\ PROCESSED_KEYS' =
         [k \in DOMAIN PROCESSED_KEYS \cup {r.key} |->
             IF k = r.key THEN InsufficientFundsBody ELSE PROCESSED_KEYS[k]]
    /\ TRANSACTIONS' =
         [t \in DOMAIN TRANSACTIONS \cup {"TRX-0000000A"} |->
             IF t = "TRX-0000000A"
             THEN [TransactionRecord(t, r.sender_account_id, r.receiver_account_id,
                                     r.amount, clock) EXCEPT !.status = "FAILED"]
             ELSE TRANSACTIONS[t]]
    /\ req' = r
    /\ res' = Response(400, InsufficientFundsBody)
    /\ UNCHANGED <<ACCOUNTS, clock, commits>>

\* lines 64-68
ReplyInsufficientFunds(r) ==
    /\ PROCESSED_KEYS' = RecordOutcome(PROCESSED_KEYS, r.key, InsufficientFundsBody)
    /\ req' = r
    /\ res' = Response(400, InsufficientFundsBody)   \* line 67: the object just stored
    /\ UNCHANGED <<ACCOUNTS, TRANSACTIONS, clock, commits>>

\* lines 104-107: the catch block
ReplyInternalError(r) == Reply(r, 500, InternalErrorBody)

\* line 42 on a request without a body: a TypeError caught at line 104
\* (Express 5), or three undefined fields rejected at line 45 (Express 4).
ReplyBodyMissing(r) ==
    \/ ReplyInternalError(r)
    \/ Reply(r, 400, InvalidRequestBody)

\* Mutant of Commit: a fault after the debit of line 76 is caught and reported.
CommitFailingAfterDebit(r) ==
    /\ ACCOUNTS' = [ACCOUNTS EXCEPT ![r.sender_account_id] =
                        Minus(ACCOUNTS[r.sender_account_id], r.amount)]
    /\ req' = r
    /\ res' = Response(500, InternalErrorBody)
    /\ UNCHANGED <<PROCESSED_KEYS, TRANSACTIONS, clock, commits>>

\* lines 70-102
Commit(r) ==
    \E tid \in TransactionIds, ts \in clock..MaxClock :
        LET moved == MoveBalances(ACCOUNTS, r.sender_account_id,
                                  r.receiver_account_id, r.amount)
            body  == SuccessBody(tid, moved[r.sender_account_id], ts)
        IN  /\ ACCOUNTS' = moved
            /\ clock' = ts
            /\ TRANSACTIONS' =
                 RecordTransaction(TRANSACTIONS, tid,
                     TransactionRecord(tid, r.sender_account_id,
                                       r.receiver_account_id, r.amount, ts))
            /\ PROCESSED_KEYS' = RecordOutcome(PROCESSED_KEYS, r.key, body)
            /\ commits' = [commits EXCEPT ![r.key] = @ + 1]
            /\ req' = r
            /\ res' = Response(201, body)

\* app.post('/api/v1/transfers', ...): one run of the handler on request r
TransferHandler(r) ==
    IF KeyMissing(r) THEN Reply(r, 400, MissingKeyBody)
    ELSE IF IsDuplicate(r) THEN Reply(r, 202, StoredBody(r.key))
    ELSE IF BodyMissing(r) THEN ReplyBodyMissing(r)
    ELSE IF BasicInvalid(r) THEN Reply(r, 400, InvalidRequestBody)
    ELSE IF AccountInvalid(r) THEN Reply(r, 400, InvalidAccountBody)
    ELSE IF IsSelfTransfer(r) THEN Reply(r, 400, SelfTransferBody)
    ELSE IF InsufficientFunds(r) THEN ReplyInsufficientFunds(r)
    ELSE Commit(r)

----------------------------------------------------------------------------
(* GET /api/v1/balance/:accountId *)

\* The body of a balance response: {account_id, balance} or {message}.
BalanceBody(id, balance, message) ==
    [account_id |-> id, balance |-> balance, message |-> message]

Lookup(id, status, body) == [accountId |-> id, status |-> status, body |-> body]

\* Before the first balance request.
NoLookup == Lookup("", 0, BalanceBody("undefined", Undefined, "undefined"))

\* Mutant of BalanceHandler: a lookup of an unknown id opens the account.
BalanceHandlerOpening(id) ==
    /\ ACCOUNTS' = [a \in DOMAIN ACCOUNTS \cup {id} |->
                        IF a \in DOMAIN ACCOUNTS THEN ACCOUNTS[a] ELSE Zero]
    /\ lookup' = Lookup(id, 200, BalanceBody(id, ACCOUNTS'[id], "undefined"))
    /\ UNCHANGED <<PROCESSED_KEYS, TRANSACTIONS, clock, req, res, commits,
                   received, responses, overlapped>>

\* lines 111-117: one run of the handler for accountId = id
BalanceHandler(id) ==
    /\ lookup' =
         IF HasOwnAccount(id)
         THEN Lookup(id, 200, BalanceBody(id, ACCOUNTS[id], "undefined"))
         ELSE Lookup(id, 404, BalanceBody("undefined", Undefined, "Conta não encontrada"))
    /\ UNCHANGED <<ACCOUNTS, PROCESSED_KEYS, TRANSACTIONS, clock, req, res,
                   commits, received, responses, overlapped>>

----------------------------------------------------------------------------
(* Specification: requests handled one after another *)

Init ==
    /\ ACCOUNTS = SeedAccounts
    /\ PROCESSED_KEYS = <<>>
    /\ TRANSACTIONS = <<>>
    /\ clock = 0
    /\ req = NoRequest
    /\ res = NoResponse
    /\ commits = [k \in Keys |-> 0]
    /\ received = <<>>
    /\ responses = <<>>
    /\ overlapped = {}
    /\ lookup = NoLookup

PostTransfers ==
    \E r \in Requests :
        /\ TransferHandler(r)
        /\ UNCHANGED <<received, responses, overlapped, lookup>>

Next == PostTransfers

Spec == Init /\ [][Next]_vars

----------------------------------------------------------------------------
(* Specification: requests in flight together, dispatched in any order *)

Slots == 1..NSlots

\* Requests of the concurrent runs: two keys, a valid route and a
\* self-transfer, a rejected and an accepted amount.
ConcRequests ==
    { Request(key, route, amount) :
        key \in {"K1", "K2"},
        route \in { <<"ACC67890", "ACC99999">>, <<"ACC67890", "ACC67890">> },
        amount \in {Zero, Fin(500, 0)} }

Pending == DOMAIN received \ DOMAIN responses

\* A request arrives on slot i; its handler has not run yet.
Receive(i, r) ==
    /\ i \notin DOMAIN received
    /\ received' = Store(received, i, r)
    /\ overlapped' = overlapped \cup { {i, j} : j \in Pending }
    /\ UNCHANGED <<ACCOUNTS, PROCESSED_KEYS, TRANSACTIONS, clock, req, res,
                   commits, responses, lookup>>

\* The event loop runs the handler of one pending request to completion.
Dispatch(i) ==
    /\ i \in Pending
    /\ TransferHandler(received[i])
    /\ responses' = Store(responses, i, res')
    /\ UNCHANGED <<received, overlapped, lookup>>

NextConc ==
    \/ \E i \in Slots, r \in ConcRequests : Receive(i, r)
    \/ \E i \in Slots : Dispatch(i)

SpecConc == Init /\ [][NextConc]_vars

----------------------------------------------------------------------------
(* Specification: transfers and balance lookups, one after another *)

\* req.params.accountId values: two accounts, no account, and a name that
\* ACCOUNTS inherits from Object.prototype.
BalanceIds == {"ACC67890", "ACC99999", "ACC00000", "constructor"}

\* Transfers of the runs with lookups: both directions between two accounts
\* and an unknown receiver.
BalanceSpecRequests ==
    { Request(key, route, amount) :
        key \in {"K1", "K2"},
        route \in { <<"ACC67890", "ACC99999">>, <<"ACC99999", "ACC67890">>,
                    <<"ACC67890", "ACC00000">> },
        amount \in {Fin(0, 1), Fin(500, 0)} }

PostTransfersSome ==
    \E r \in BalanceSpecRequests :
        /\ TransferHandler(r)
        /\ UNCHANGED <<received, responses, overlapped, lookup>>

GetBalance == \E id \in BalanceIds : BalanceHandler(id)

NextBalance == PostTransfersSome \/ GetBalance

SpecBalance == Init /\ [][NextBalance]_vars

----------------------------------------------------------------------------
(* Vocabulary of the claims *)

\* The handler has answered at least one request.
Answered == res.status # 0

Recorded(key) == key \in DOMAIN PROCESSED_KEYS

ClientInputErrors ==
    {MissingKeyBody, InvalidRequestBody, InvalidAccountBody, SelfTransferBody}

\* The last response is a freshly computed client-input error.
IsClientInputError(response) ==
    response.status = 400 /\ response.body \in ClientInputErrors

\* amount is a finite or infinite number > 0
PositiveNumber(a) == a.k \in {"fin", "inf"} /\ Less(Zero, a)

\* The exact (real-number) sum of the balances of a set of accounts.
RECURSIVE SumBalances(_, _)
SumBalances(accounts, ids) ==
    IF ids = {} THEN Zero
    ELSE LET a    == CHOOSE x \in ids : TRUE
             rest == SumBalances(accounts, ids \ {a})
         IN  Fin(accounts[a].w + rest.w, accounts[a].f + rest.f)

----------------------------------------------------------------------------
(* Claims *)

\* C1: for every idempotency key, the balances are debited/credited at most
\* once by requests carrying that key, whatever the payloads and retries.
C1_AtMostOneMutationPerKey == \A k \in Keys : commits[k] <= 1

\* C1 witness: a key has committed once and a retry with it was answered.
C1_Witness ==
    /\ res.status = 202
    /\ commits[req.key] = 1
    /\ req.amount = Fin(500, 0)
    /\ req.sender_account_id = "ACC67890"
    /\ req.receiver_account_id = "ACC99999"

\* C2: in every reachable state every account balance is >= 0.
C2_NonNegativeBalances == \A a \in DOMAIN ACCOUNTS : ~Less(ACCOUNTS[a], Zero)

\* C2 witness: two keys debit the same sender; the first drains it and the
\* second is refused for insufficient funds.
C2_Witness ==
    /\ commits["K1"] = 1
    /\ ACCOUNTS["ACC67890"] = Zero
    /\ req.key = "K2"
    /\ req.sender_account_id = "ACC67890"
    /\ req.amount = Fin(500, 0)
    /\ res = Response(400, InsufficientFundsBody)

\* C3: after every completed request the sum of all balances equals the sum
\* of the seed balances.
C3_SumConserved ==
    SumBalances(ACCOUNTS, DOMAIN ACCOUNTS) = SumBalances(SeedAccounts, AccountIds)

\* C4 as stated: two consecutive calls with the same key yield the identical
\* outcome, whatever the first outcome was, and the ledger is mutated at most
\* once across the two calls.
C4_Original ==
    [][ (Answered /\ req'.key = req.key) =>
            /\ res'.body = res.body
            /\ ~(res.status = 201 /\ commits' # commits) ]_vars

\* C4 amended: the second of two consecutive calls with the same key yields
\* the outcome of the first unless the first ended in InvalidRequest,
\* InvalidAccount, SelfTransferNotAllowed or InternalError (which are not
\* recorded), and the ledger is mutated at most once across the two calls.
C4_ReplayIdentical ==
    [][ (Answered /\ req'.key = req.key) =>
            /\ res.body \notin {InvalidRequestBody, InvalidAccountBody,
                                SelfTransferBody, InternalErrorBody}
                  => res'.body = res.body
            /\ ~(res.status = 201 /\ commits' # commits) ]_vars

\* C4 witness: a Success is replayed to a call whose payload differs from the
\* committed one (it names an unknown receiver and another amount).
C4_Witness ==
    /\ res.status = 202
    /\ res.body.status = "SUCCESS"
    /\ req.receiver_account_id = "ACC00000"
    /\ req.amount = Zero
    /\ commits[req.key] = 1

\* The slots that carry key k, were pending together and are all answered.
ConcurrentGroups(k) ==
    { G \in SUBSET DOMAIN responses :
        /\ Cardinality(G) >= 2
        /\ \A i \in G : received[i].key = k
        /\ \A i, j \in G : i # j => {i, j} \in overlapped }

C6_Original ==
    (Answered /\ req.sender_account_id = req.receiver_account_id)
        => res.body = SelfTransferBody

\* C6 amended: a request whose sender equals its receiver changes no balance
\* and records nothing; its outcome is SelfTransferNotAllowed unless an
\* earlier check answers it (MissingIdempotencyKey, a 202 replay,
\* InvalidRequest, InvalidAccount, or InternalError for a request without a
\* body), and it is SelfTransferNotAllowed whenever the key is present, the
\* answer is no replay, the amount is a positive number and the account
\* exists.
C6_SelfTransfer ==
    [][ req'.sender_account_id = req'.receiver_account_id =>
            /\ UNCHANGED <<ACCOUNTS, PROCESSED_KEYS, TRANSACTIONS>>
            /\ \/ res'.status = 202
               \/ res'.status = 400 /\ res'.body \in ClientInputErrors
               \/ res'.status = 500 /\ ~req'.has_body
            /\ ( /\ req'.key # ""
                 /\ res'.status # 202
                 /\ PositiveNumber(req'.amount)
                 /\ req'.sender_account_id \in AccountIds )
                  => res' = Response(400, SelfTransferBody) ]_vars

\* C6 witness: a self-transfer on an existing account with a fresh key and an
\* affordable amount is rejected as SelfTransferNotAllowed.
C6_Witness ==
    /\ req.sender_account_id = "ACC67890"
    /\ req.receiver_account_id = "ACC67890"
    /\ req.amount = Fin(500, 0)
    /\ req.key = "K1"
    /\ res = Response(400, SelfTransferBody)

\* The response the fixed order of checks prescribes for request r in the
\* current state, Success apart: (1) key absent or empty, (2) key already
\* recorded, (3) empty sender/receiver or amount not a positive number,
\* (4) sender or receiver no existing account, (5) sender equals receiver,
\* (6) sender balance < amount.
FirstFailingCheck(r) ==
    IF r.key = "" THEN Response(400, MissingKeyBody)
    ELSE IF Recorded(r.key) THEN Response(202, PROCESSED_KEYS[r.key])
    ELSE IF r.sender_account_id = "" \/ r.receiver_account_id = ""
            \/ ~PositiveNumber(r.amount)
         THEN Response(400, InvalidRequestBody)
    ELSE IF r.sender_account_id \notin AccountIds
            \/ r.receiver_account_id \notin AccountIds
         THEN Response(400, InvalidAccountBody)
    ELSE IF r.sender_account_id = r.receiver_account_id
         THEN Response(400, SelfTransferBody)
    ELSE IF Less(ACCOUNTS[r.sender_account_id], r.amount)
         THEN Response(400, InsufficientFundsBody)
    ELSE NoResponse

\* C7: the outcome of a request is decided by the first failing check of the
\* fixed order (1)..(6); only a request passing all six commits and yields
\* Success.
C7_FirstFailingCheckDecides ==
    [][ IF FirstFailingCheck(req') = NoResponse
        THEN res'.status = 201 /\ res'.body.status = "SUCCESS"
             /\ commits'[req'.key] = commits[req'.key] + 1
        ELSE res' = FirstFailingCheck(req') /\ commits' = commits ]_vars

\* C8 as stated: the outcomes InvalidAccount, SelfTransferNotAllowed and
\* InsufficientFunds are each recorded under the request's key before being
\* returned.
C8_Original ==
    (res.status = 400
        /\ res.body \in {InvalidAccountBody, SelfTransferBody, InsufficientFundsBody})
        => (Recorded(req.key) /\ PROCESSED_KEYS[req.key] = res.body)

\* C8 amended: of the outcomes of checks 4 to 6 only InsufficientFunds is
\* recorded under the request's key before being returned, so that a later
\* request with the same key replays that error; InvalidAccount and
\* SelfTransferNotAllowed are returned without being recorded.
C8_InsufficientFundsRecorded ==
    /\ [](res = Response(400, InsufficientFundsBody)
            => (Recorded(req.key) /\ PROCESSED_KEYS[req.key] = InsufficientFundsBody))
    /\ [][ /\ (res = Response(400, InsufficientFundsBody) /\ req'.key = req.key)
                => res' \in {res, Response(202, InsufficientFundsBody)}
           /\ (res'.status = 400 /\ res'.body \in {InvalidAccountBody, SelfTransferBody})
                => (~Recorded(req'.key) /\ PROCESSED_KEYS' = PROCESSED_KEYS) ]_vars

\* C8 witness: an InsufficientFunds recorded under a key is replayed to a
\* later request with that key.
C8_Witness ==
    /\ res = Response(202, InsufficientFundsBody)
    /\ Recorded(req.key)
    /\ PROCESSED_KEYS[req.key] = InsufficientFundsBody

\* C9: a request that ends in a client-input error leaves PROCESSED_KEYS
\* unchanged and its key unconsumed; the next request with the same key is
\* validated afresh, and commits when its input passes every check.
C9_ClientErrorsNotRecorded ==
    /\ [][ IsClientInputError(res') =>
              (PROCESSED_KEYS' = PROCESSED_KEYS /\ ~Recorded(req'.key)) ]_vars
    /\ [][ (IsClientInputError(res) /\ req.key # "" /\ req'.key = req.key) =>
              /\ res'.status # 202
              /\ ( /\ req'.sender_account_id \in AccountIds
                   /\ req'.receiver_account_id \in AccountIds
                   /\ req'.sender_account_id # req'.receiver_account_id
                   /\ req'.amount.k = "fin" /\ Less(Zero, req'.amount)
                   /\ ~Less(ACCOUNTS[req'.sender_account_id], req'.amount) )
                    => res'.status = 201 ]_vars

\* C9 witness: a key ended in SelfTransferNotAllowed after another key had
\* committed, and is still unrecorded.
C9_Witness ==
    /\ res = Response(400, SelfTransferBody)
    /\ req.key = "K1"
    /\ ~Recorded("K1")
    /\ commits["K2"] = 1

\* C10: once a key has a recorded outcome, every later request with that key
\* returns exactly the stored outcome, whatever its payload and the balances,
\* and changes no balance, no transaction record and no idempotency record;
\* the recorded outcomes are Success and InsufficientFunds.
C10_RecordedOutcomeReplayed ==
    /\ [](\A k \in DOMAIN PROCESSED_KEYS :
            PROCESSED_KEYS[k] = InsufficientFundsBody
                \/ PROCESSED_KEYS[k].status = "SUCCESS")
    /\ [][ Recorded(req'.key) =>
              /\ res' = Response(202, PROCESSED_KEYS[req'.key])
              /\ UNCHANGED <<ACCOUNTS, TRANSACTIONS, PROCESSED_KEYS, commits>> ]_vars

\* C10 witness: InsufficientFunds is replayed to a retry whose corrected
\* amount the sender can afford.
C10_Witness ==
    /\ res = Response(202, InsufficientFundsBody)
    /\ req.sender_account_id = "ACC67890"
    /\ req.receiver_account_id = "ACC99999"
    /\ req.amount = Fin(500, 0)
    /\ ~Less(ACCOUNTS["ACC67890"], req.amount)

\* C11: an idempotency record is created at most once per key and is
\* immutable and never removed: once PROCESSED_KEYS[k] holds an outcome it
\* holds the same outcome in every later state.
C11_RecordsImmutable ==
    [][ \A k \in DOMAIN PROCESSED_KEYS :
            k \in DOMAIN PROCESSED_KEYS' /\ PROCESSED_KEYS'[k] = PROCESSED_KEYS[k] ]_vars

\* C11 witness: both keys hold a record, an InsufficientFunds and a Success,
\* and the key of the InsufficientFunds was retried with a payload that
\* would now commit.
C11_Witness ==
    /\ Recorded("K1") /\ PROCESSED_KEYS["K1"] = InsufficientFundsBody
    /\ Recorded("K2") /\ PROCESSED_KEYS["K2"].status = "SUCCESS"
    /\ req.key = "K1"
    /\ req.sender_account_id = "ACC99999"
    /\ req.receiver_account_id = "ACC67890"
    /\ req.amount = Fin(500, 0)
    /\ res.status = 202

\* C12: a request that ends with InternalError leaves every balance (and
\* every record) as it was before the request; balances move only in a step
\* that applies both the debit and the credit and reports Success.
C12_AtomicUnderFaults ==
    [][ /\ res'.status = 500 =>
              UNCHANGED <<ACCOUNTS, PROCESSED_KEYS, TRANSACTIONS, commits>>
        /\ ACCOUNTS' # ACCOUNTS =>
              /\ res'.status = 201
              /\ ACCOUNTS'[req'.sender_account_id] =
                    Minus(ACCOUNTS[req'.sender_account_id], req'.amount)
              /\ ACCOUNTS'[req'.receiver_account_id] =
                    Plus(ACCOUNTS[req'.receiver_account_id], req'.amount) ]_vars

\* C12 witness: a request is answered InternalError after a transfer has
\* committed; the moved balances are still in place.
C12_Witness ==
    /\ res = Response(500, InternalErrorBody)
    /\ req.key = "K2"
    /\ commits["K1"] = 1
    /\ ACCOUNTS["ACC67890"] = Zero
    /\ ACCOUNTS["ACC99999"] = Fin(10500, 0)

\* The number of commits so far, over all keys.
RECURSIVE TotalCommits(_)
TotalCommits(keys) ==
    IF keys = {} THEN 0
    ELSE LET k == CHOOSE x \in keys : TRUE
         IN  commits[k] + TotalCommits(keys \ {k})

\* C13: every successful commit creates one new Transaction record under a
\* transaction_id no earlier record uses: the number of records equals the
\* number of Success commits, and no stored record is overwritten, changed
\* or removed.
C13_OneRecordPerCommit ==
    /\ [](Cardinality(DOMAIN TRANSACTIONS) = TotalCommits(Keys))
    /\ [][ \A t \in DOMAIN TRANSACTIONS :
              t \in DOMAIN TRANSACTIONS' /\ TRANSACTIONS'[t] = TRANSACTIONS[t] ]_vars

\* amount is a finite number > 0
FinitePositive(a) == a.k = "fin" /\ Less(Zero, a)

\* C14: a request whose amount is not a finite positive number (and that is
\* not answered by the key checks 1-2) yields InvalidRequest and records
\* nothing under its key.
C14_NonFiniteAmountRejected ==
    [][ ( /\ req'.has_body
          /\ req'.key # ""
          /\ res'.status # 202
          /\ ~FinitePositive(req'.amount) )
            => /\ res' = Response(400, InvalidRequestBody)
               /\ PROCESSED_KEYS' = PROCESSED_KEYS ]_vars

\* The exact difference and sum of two finite numbers.
ExactMinus(a, b) == Fin(a.w - b.w, a.f - b.f)
ExactPlus(a, b) == Fin(a.w + b.w, a.f + b.f)

\* C15: a successful transfer of amount a from S to R decreases balance(S)
\* by a, increases balance(R) by a, leaves every other account unchanged, and
\* reports new_sender_balance = balance(S) before the request minus a.
C15_ExactlyTwoBalancesMove ==
    [][ res'.status = 201 =>
          LET S == req'.sender_account_id
              R == req'.receiver_account_id
              a == req'.amount
          IN  /\ ACCOUNTS'[S] = ExactMinus(ACCOUNTS[S], a)
              /\ ACCOUNTS'[R] = ExactPlus(ACCOUNTS[R], a)
              /\ \A x \in DOMAIN ACCOUNTS \ {S, R} : ACCOUNTS'[x] = ACCOUNTS[x]
              /\ res'.body.new_sender_balance = ExactMinus(ACCOUNTS[S], a) ]_vars

\* C16: every request that ends with an outcome other than a fresh Success
\* leaves ACCOUNTS and TRANSACTIONS unchanged; only a fresh Success writes a
\* Transaction record, and every stored record is a COMPLETED one.
C16_OnlySuccessWrites ==
    /\ [](\A t \in DOMAIN TRANSACTIONS : TRANSACTIONS[t].status = "COMPLETED")
    /\ [][ /\ res'.status # 201 => UNCHANGED <<ACCOUNTS, TRANSACTIONS>>
           /\ res'.status = 201 =>
                 /\ res'.body.transaction_id \in DOMAIN TRANSACTIONS'
                 /\ TRANSACTIONS'[res'.body.transaction_id].sender_id
                        = req'.sender_account_id ]_vars

\* C16 witness: a transfer refused for insufficient funds after another one
\* has committed; the ledger holds the one record of the commit.
C16_Witness ==
    /\ res = Response(400, InsufficientFundsBody)
    /\ req.sender_account_id = "ACC67890"
    /\ req.amount = Fin(500, 0)
    /\ Cardinality(DOMAIN TRANSACTIONS) = 1
    /\ ACCOUNTS["ACC67890"] = Zero

\* C18: a request is answered on the duplicate-replay path (202) only if an
\* earlier request with the same key installed a record.
C18_ReplayOnlyIfRecorded == res.status = 202 => Recorded(req.key)

\* The keys whose recorded outcome is a Success naming transaction t.
SuccessKeysOf(t) ==
    { k \in DOMAIN PROCESSED_KEYS :
        PROCESSED_KEYS[k].status = "SUCCESS" /\ PROCESSED_KEYS[k].transaction_id = t }

\* C19: each key whose recorded outcome is Success names a transaction_id
\* that has a record in TRANSACTIONS with the same timestamp, and each record
\* in TRANSACTIONS is named by the Success outcome of exactly one key.
C19_StoresConsistent ==
    /\ \A k \in DOMAIN PROCESSED_KEYS :
          PROCESSED_KEYS[k].status = "SUCCESS" =>
              /\ PROCESSED_KEYS[k].transaction_id \in DOMAIN TRANSACTIONS
              /\ TRANSACTIONS[PROCESSED_KEYS[k].transaction_id].timestamp
                    = PROCESSED_KEYS[k].timestamp
    /\ \A t \in DOMAIN TRANSACTIONS : Cardinality(SuccessKeysOf(t)) = 1

\* C17: the set of account identifiers is constant under transfer and
\* balance requests, also ones naming unknown ids; a balance request changes
\* no state and returns the current balance of an existing account and
\* not-found otherwise.
C17_AccountsFixedBalanceReadOnly ==
    /\ [](DOMAIN ACCOUNTS = AccountIds)
    /\ [][ lookup' # lookup =>
              /\ UNCHANGED <<ACCOUNTS, PROCESSED_KEYS, TRANSACTIONS, clock,
                             req, res, commits>>
              /\ IF lookup'.accountId \in AccountIds
                 THEN /\ lookup'.status = 200
                      /\ lookup'.body.account_id = lookup'.accountId
                      /\ lookup'.body.balance = ACCOUNTS[lookup'.accountId]
                 ELSE /\ lookup'.status = 404
                      /\ lookup'.body.balance = Undefined ]_vars

\* C17 witness: after a commit and a transfer naming an unknown receiver, the
\* balance of the drained sender is read.
C17_Witness ==
    /\ lookup.accountId = "ACC67890"
    /\ lookup.status = 200
    /\ lookup.body.balance = Zero
    /\ ACCOUNTS["ACC67890"] = Zero
    /\ req.receiver_account_id = "ACC00000"
    /\ res = Response(400, InvalidAccountBody)

====
